---------------------------- MODULE Spec2Model ----------------------------
(***************************************************************************)
(* Model of realtime_reid.classifier.PersonReID: the embedding store       *)
(* (self.embeddings), the identity labels (self.ids), the next-identity    *)
(* counter (self.current_max_id), and the operations __init__,             *)
(* calculate_score, identify and _update_embeddings.                       *)
(*                                                                         *)
(* An embedding row is a tuple of integers.  A cosine score is kept exact  *)
(* as a pair <<num, den>> standing for num / sqrt(den), den > 0, so that   *)
(* comparisons of scores (torch.max, `>` against the threshold) are        *)
(* decided without rounding.                                               *)
(***************************************************************************)
EXTENDS Integers, Sequences, FiniteSets, TLC

VARIABLES
    embeddings,      \* self.embeddings: sequence of rows
    ids,             \* self.ids: sequence of labels
    current_max_id,  \* self.current_max_id
    call,            \* the last completed call on the object (sequential use)
    result,          \* what that call returned or raised
    dry,             \* history: the first identify(do_update=False) since the last
                     \* call with do_update=True, its label, and whether it was repeated
    seed_labels,     \* the labels the caller persisted next to a seed tensor
    thr,             \* per-thread position and locals inside identify
    copy,            \* a second PersonReID object, built from the first one's saved tensor
    vp               \* a VideoProducer inside publish_from_video

vars == <<embeddings, ids, current_max_id, call, result, dry, seed_labels, thr,
          copy, vp>>

obj == <<embeddings, ids, current_max_id>>

-----------------------------------------------------------------------------
(* Bounds of the model *)

MaxStore == 3

NumThreads == 2

MaxSeed == 2
MaxFrames == 3      \* frames a video yields before its reads fail
MaxDelay == 3       \* most clock ticks that pass between two readings of the clock

(* Input rows.  cos(RowA,RowB) = 7/10 exactly, cos(RowA,RowC) = 0,          *)
(* cos(RowE,RowA) = cos(RowE,RowC) = 1/sqrt(2) > 0.70, cos(RowB,RowC) = 0.1. *)
RowA == <<1, 0, 0, 0>>

RowB == <<7, 1, 1, 7>>

RowC == <<0, 1, 0, 0>>

RowE == <<1, 1, 0, 0>>

Targets == {RowA, RowB, RowC, RowE}

(* Rows of another dimensionality than the store's *)
RowS == <<1>>

RowT == <<1, 0>>

DimTargets == {RowA, RowC, RowS, RowT}

Threads == 1..NumThreads

-----------------------------------------------------------------------------
(* Numeric helpers *)

RECURSIVE Dot(_, _)
Dot(x, y) ==
    IF Len(x) = 0 THEN 0
    ELSE Head(x) * Head(y) + Dot(Tail(x), Tail(y))

\* Exact comparison of two scores a/sqrt(p) > b/sqrt(q)
ScoreGT(s, t) ==
    LET a == s[1]
        p == s[2]
        b == t[1]
        q == t[2]
    IN  IF a >= 0 /\ b >= 0 THEN a * a * q > b * b * p
        ELSE IF a >= 0 THEN TRUE
        ELSE IF b >= 0 THEN FALSE
        ELSE a * a * q < b * b * p

\* self.CONFIDENT_THRESHOLD['normal'] = 0.70 = 7 / sqrt(100)
NormalThreshold == <<7, 100>>

\* torch.nn.CosineSimilarity(dim=1, eps=1e-6) on one pair of rows: the
\* denominator is clamped below by eps, so a zero row scores 0.
CosRow(x, y) ==
    LET den == Dot(x, x) * Dot(y, y)
    IN  IF den = 0 THEN <<0, 1>> ELSE <<Dot(x, y), den>>

\* Broadcasting of a row to d columns: a row of one column is repeated
Expand(x, d) == IF Len(x) = d THEN x ELSE [i \in 1..d |-> x[1]]

\* torch broadcasting of the column dimension of two 2-D tensors
Broadcastable(dt, ds) == dt = ds \/ dt = 1 \/ ds = 1

\* self.cos_scorer(target, self.embeddings): one score per stored row, the
\* two tensors broadcast to a common number of columns
cos_scorer(target, emb) ==
    LET d == IF Len(target) > Len(emb[1]) THEN Len(target) ELSE Len(emb[1])
    IN  [i \in 1..Len(emb) |-> CosRow(Expand(target, d), Expand(emb[i], d))]

\* torch.cdist(target, self.embeddings, p=2): squared distance under the root
RECURSIVE SqDist(_, _)
SqDist(x, y) ==
    IF Len(x) = 0 THEN 0
    ELSE (Head(x) - Head(y)) * (Head(x) - Head(y)) + SqDist(Tail(x), Tail(y))

cdist(target, emb) ==
    [i \in 1..Len(emb) |-> <<"sqrt", SqDist(target, emb[i])>>]


-----------------------------------------------------------------------------
(* calculate_score *)

\* What a call returns: a label, a sequence of scores, or a raised exception
Returned(label) == [kind |-> "label", label |-> label, scores |-> <<>>, error |-> ""]

Scores(seq) == [kind |-> "scores", label |-> 0, scores |-> seq, error |-> ""]

Raised(err) == [kind |-> "raise", label |-> 0, scores |-> <<>>, error |-> err]

\* calculate_score(target, score) against the store emb.  The unseeded
\* store is torch.Tensor(), a 1-D tensor of shape [0]: cdist (2-D inputs
\* only) raises on it, and CosineSimilarity(dim=1) raises unless the target
\* has one column, which broadcasts against shape [0] to the single score 0.
\* On a store of rows the cosine needs broadcastable columns and cdist equal
\* columns.
calculate_score(emb, target, score) ==
    IF score = "cosine" THEN
        IF Len(emb) = 0
        THEN IF Len(target) = 1 THEN Scores(<<<<0, 1>>>>)
             ELSE Raised("RuntimeError")
        ELSE IF Broadcastable(Len(target), Len(emb[1]))
        THEN Scores(cos_scorer(target, emb))
        ELSE Raised("RuntimeError")
    ELSE IF score = "euclidean" THEN
        IF Len(emb) = 0 \/ Len(target) # Len(emb[1])
        THEN Raised("RuntimeError")
        ELSE Scores(cdist(target, emb))
    ELSE Scores(<<>>)

-----------------------------------------------------------------------------
(* identify and _update_embeddings *)

\* torch.max(results, dim=0): the maximal value and the index of its first
\* occurrence.  Indices are 1-based here, 0-based in the source.
RECURSIVE MaxScanLast(_, _, _)
MaxScanLast(results, i, best) ==
    IF i > Len(results) THEN best
    ELSE MaxScanLast(results, i + 1,
                     IF ScoreGT(results[best], results[i]) THEN best ELSE i)

TorchMax_last(results) ==
    LET k == MaxScanLast(results, 2, 1)
    IN  [score |-> results[k], index |-> k]

RECURSIVE MaxScan(_, _, _)
MaxScan(results, i, best) ==
    IF i > Len(results) THEN best
    ELSE MaxScan(results, i + 1,
                 IF ScoreGT(results[i], results[best]) THEN i ELSE best)

TorchMax(results) ==
    LET k == MaxScan(results, 2, 1)
    IN  [score |-> results[k], index |-> k]

\* line 90: self.embeddings.shape[0] != 0
StoreNonEmpty_always(emb) == TRUE

StoreNonEmpty(emb) == Len(emb) # 0

\* line 96: top_score > self.CONFIDENT_THRESHOLD['normal']
AboveThreshold_geq(top_score) == ~ScoreGT(NormalThreshold, top_score)

AboveThreshold(top_score) == ScoreGT(top_score, NormalThreshold)

\* lines 99 and 102: torch.cat((self.embeddings, target), dim=0), or target
NewEmbeddings_replace(emb, target) == <<target>>

NewEmbeddings(emb, target) ==
    IF StoreNonEmpty(emb) THEN emb \o <<target>> ELSE <<target>>

\* line 99: torch.cat raises when the columns of store and target differ
CatFails_never(emb, target) == FALSE

CatFails(emb, target) == Len(emb[1]) # Len(target)

\* line 104: if do_update
ShouldUpdate_always(do_update) == TRUE

ShouldUpdate_negated(do_update) == ~do_update

ShouldUpdate(do_update) == do_update

\* lines 125-126: self.ids grows when the new store is longer than it
AppendId_onlyNew(idl, ctr, new_embeddings, target_id) ==
    IF Len(new_embeddings) > Len(idl) /\ target_id = ctr
    THEN Append(idl, target_id) ELSE idl

AppendId(idl, ctr, new_embeddings, target_id) ==
    IF Len(new_embeddings) > Len(idl) THEN Append(idl, target_id) ELSE idl

\* lines 127-128: the counter moves when the label is the counter's value
BumpCounter_always(ctr, target_id) == ctr + 1

BumpCounter_never(ctr, target_id) == ctr

BumpCounter(ctr, target_id) ==
    IF ctr = target_id THEN ctr + 1 ELSE ctr

\* _update_embeddings(new_embeddings, target_id) on the object <<emb, idl, ctr>>:
\* the three writes, then the assertion of line 130
update_embeddings(emb, idl, ctr, new_embeddings, target_id) ==
    LET ids1 == AppendId(idl, ctr, new_embeddings, target_id)
        ctr1 == BumpCounter(ctr, target_id)
    IN  [embeddings |-> new_embeddings,
         ids |-> ids1,
         current_max_id |-> ctr1,
         assert_ok |-> (Len(ids1) = Len(new_embeddings))]

\* identify(target, do_update) run to completion on the object <<emb, idl, ctr>>:
\* the object afterwards, what the caller gets, and which branches ran
identify(emb, idl, ctr, target, do_update) ==
    LET nonempty == StoreNonEmpty(emb)
        res == calculate_score(emb, target, "cosine")
        top == TorchMax(res.scores)
        matched == nonempty /\ res.kind = "scores" /\ AboveThreshold(top.score)
        same == [embeddings |-> emb, ids |-> idl, current_max_id |-> ctr]
    IN  IF nonempty /\ res.kind = "raise"
        THEN same @@ [result |-> res, scored |-> TRUE, matched |-> FALSE]
        ELSE IF matched /\ top.index > Len(idl)
        THEN same @@ [result |-> Raised("IndexError"),
                      scored |-> TRUE, matched |-> TRUE]
        ELSE IF nonempty /\ CatFails(emb, target)
        THEN same @@ [result |-> Raised("RuntimeError"),
                      scored |-> TRUE, matched |-> matched]
        ELSE
        LET target_id == IF matched THEN idl[top.index] ELSE ctr
            new_embeddings == NewEmbeddings(emb, target)
            upd == update_embeddings(emb, idl, ctr, new_embeddings, target_id)
        IN  IF ShouldUpdate(do_update)
            THEN [embeddings |-> upd.embeddings, ids |-> upd.ids,
                  current_max_id |-> upd.current_max_id,
                  result |-> IF upd.assert_ok THEN Returned(target_id)
                             ELSE Raised("AssertionError"),
                  scored |-> nonempty, matched |-> matched]
            ELSE same @@ [result |-> Returned(target_id),
                          scored |-> nonempty, matched |-> matched]

-----------------------------------------------------------------------------
(* Sequential use of one PersonReID object *)

NoDry == [set |-> FALSE, target |-> <<>>, label |-> 0, again |-> FALSE]

\* Keep the first label returned without commit; note when its target is asked again
Remember(seen, target, label) ==
    IF ~seen.set
    THEN [set |-> TRUE, target |-> target, label |-> label, again |-> FALSE]
    ELSE IF seen.target = target THEN [seen EXCEPT !.again = TRUE]
    ELSE seen

\* No second object has been built
NoCopy ==
    [made |-> FALSE, asked |-> FALSE, embeddings |-> <<>>, ids |-> <<>>,
     current_max_id |-> 0, result |-> Returned(0)]

\* No VideoProducer is publishing
NoVideo ==
    [pc |-> "none", INTERVAL |-> 0, opened |-> FALSE, last_time |-> 0, now |-> 0,
     nframes |-> 0, at |-> 0, pub |-> FALSE, prev |-> 0, failed |-> FALSE,
     released |-> FALSE, ret |-> FALSE, error |-> ""]

\* A thread that has not entered identify
IdleThread ==
    [pc |-> "idle", target |-> <<>>, do_update |-> FALSE, target_id |-> 0,
     top_ppl |-> 0, new_embeddings |-> <<>>, tmp |-> 0, ret |-> Returned(0)]

IdleThreads == [t \in Threads |-> IdleThread]

\* PersonReID(): lines 44-49 with neither from_file nor from_tensor
Init ==
    /\ embeddings = <<>>
    /\ ids = <<>>
    /\ current_max_id = 0
    /\ call = [op |-> "init", target |-> <<>>, do_update |-> FALSE,
               metric |-> "", scored |-> FALSE, matched |-> FALSE]
    /\ result = Returned(0)
    /\ dry = NoDry
    /\ seed_labels = <<>>
    /\ thr = IdleThreads
    /\ copy = NoCopy
    /\ vp = NoVideo

\* identify(target, do_update), the whole call
Identify(target, do_update) ==
    LET r == identify(embeddings, ids, current_max_id, target, do_update)
    IN  /\ do_update => Len(embeddings) < MaxStore
        /\ embeddings' = r.embeddings
        /\ ids' = r.ids
        /\ current_max_id' = r.current_max_id
        /\ call' = [op |-> "identify", target |-> target, do_update |-> do_update,
                    metric |-> "cosine", scored |-> r.scored, matched |-> r.matched]
        /\ result' = r.result
        /\ dry' = IF do_update THEN NoDry
                  ELSE IF r.result.kind = "label"
                  THEN Remember(dry, target, r.result.label)
                  ELSE dry
        /\ UNCHANGED <<seed_labels, thr, copy, vp>>

\* calculate_score(target, score), the whole call
CalculateScore(target, score) ==
    /\ call' = [op |-> "calculate_score", target |-> target, do_update |-> FALSE,
                metric |-> score, scored |-> TRUE, matched |-> FALSE]
    /\ result' = calculate_score(embeddings, target, score)
    /\ UNCHANGED <<embeddings, ids, current_max_id, dry, seed_labels, thr, copy, vp>>

Next ==
    \/ \E target \in Targets, do_update \in BOOLEAN : Identify(target, do_update)
    \/ \E target \in Targets, score \in {"cosine", "euclidean"} :
          CalculateScore(target, score)

Spec == Init /\ [][Next]_vars

\* The same calls with targets of any dimensionality
NextDim ==
    \/ \E target \in DimTargets, do_update \in BOOLEAN : Identify(target, do_update)
    \/ \E target \in DimTargets, score \in {"cosine", "euclidean"} :
          CalculateScore(target, score)

SpecDim == Init /\ [][NextDim]_vars


-----------------------------------------------------------------------------
(* Construction from a saved tensor *)

RECURSIVE SeqsUpTo(_, _)
SeqsUpTo(S, n) ==
    IF n = 0 THEN {<<>>}
    ELSE LET shorter == SeqsUpTo(S, n - 1)
         IN  shorter \cup {Append(q, x) : q \in shorter, x \in S}

\* The tensors a caller may pass as from_tensor (or have saved at from_file)
SeedTensors == SeqsUpTo(Targets, MaxSeed) \ {<<>>}

\* PersonReID(from_file, from_tensor): lines 39-49.  The constructor has no
\* parameter for labels: whatever labels the caller kept for the rows of the
\* tensor (seed_labels) stay with the caller, self.ids starts empty and
\* self.current_max_id at 0.
InitSeeded ==
    /\ \/ embeddings = <<>> /\ seed_labels = <<>>
       \/ \E seed \in SeedTensors :
             /\ embeddings = seed
             /\ seed_labels \in [1..Len(seed) -> 0..(MaxSeed - 1)]
    /\ ids = <<>>
    /\ current_max_id = 0
    /\ call = [op |-> "init", target |-> <<>>, do_update |-> FALSE,
               metric |-> "", scored |-> FALSE, matched |-> FALSE]
    /\ result = Returned(0)
    /\ dry = NoDry
    /\ thr = IdleThreads
    /\ copy = NoCopy
    /\ vp = NoVideo

SpecSeeded == InitSeeded /\ [][Next]_vars

-----------------------------------------------------------------------------
(* The constructor as a call *)

\* An optional argument: left at None, or set to a tensor (for from_file, the
\* tensor torch.load finds in the file)
NoArg == [set |-> FALSE, tensor |-> <<>>]

Arg(tensor) == [set |-> TRUE, tensor |-> tensor]

CtorTensors == {<<RowA>>, <<RowA, RowC>>}

CtorArgs == {NoArg} \cup {Arg(x) : x \in CtorTensors}

\* line 31: assert from_file is None or from_tensor is None
ArgsExclusive_unchecked(from_file, from_tensor) == TRUE

ArgsExclusive(from_file, from_tensor) == ~from_file.set \/ ~from_tensor.set

\* __init__(from_file, from_tensor): the assertion, then lines 39-49
init(from_file, from_tensor) ==
    IF ~ArgsExclusive(from_file, from_tensor)
    THEN [embeddings |-> <<>>, ids |-> <<>>, current_max_id |-> 0,
          result |-> Raised("AssertionError")]
    ELSE [embeddings |-> IF from_file.set THEN from_file.tensor
                         ELSE IF from_tensor.set THEN from_tensor.tensor
                         ELSE <<>>,
          ids |-> <<>>,
          current_max_id |-> 0,
          result |-> Returned(0)]

\* Before PersonReID(...) is called there is no object
InitCtor ==
    /\ embeddings = <<>>
    /\ ids = <<>>
    /\ current_max_id = 0
    /\ call = [op |-> "new", target |-> <<>>, do_update |-> FALSE,
               metric |-> "", scored |-> FALSE, matched |-> FALSE]
    /\ result = Returned(0)
    /\ dry = NoDry
    /\ seed_labels = <<>>
    /\ thr = IdleThreads
    /\ copy = NoCopy
    /\ vp = NoVideo

\* An object exists: the constructor has run and has not raised
Constructed ==
    /\ call.op # "new"
    /\ ~(call.op = "init" /\ result.kind = "raise")

\* PersonReID(from_file, from_tensor)
Construct(from_file, from_tensor) ==
    LET r == init(from_file, from_tensor)
    IN  /\ call.op = "new"
        /\ call' = [op |-> "init", from_file |-> from_file,
                    from_tensor |-> from_tensor]
        /\ result' = r.result
        /\ embeddings' = r.embeddings
        /\ ids' = r.ids
        /\ current_max_id' = r.current_max_id
        /\ UNCHANGED <<dry, seed_labels, thr, copy, vp>>

NextCtor ==
    \/ \E from_file \in CtorArgs, from_tensor \in CtorArgs :
          Construct(from_file, from_tensor)
    \/ \E target \in Targets, do_update \in BOOLEAN :
          Constructed /\ Identify(target, do_update)

SpecCtor == InitCtor /\ [][NextCtor]_vars

-----------------------------------------------------------------------------
(* Saving the tensor of one matcher and constructing a second one from it *)

\* PersonReID(from_tensor=self.embeddings) (or from_file after torch.save of
\* self.embeddings): the embeddings are all the constructor can be given
Reload ==
    LET r == init(NoArg, Arg(embeddings))
    IN  /\ ~copy.made
        /\ copy' = [made |-> TRUE, asked |-> FALSE, embeddings |-> r.embeddings,
                    ids |-> r.ids, current_max_id |-> r.current_max_id,
                    result |-> r.result]
        /\ UNCHANGED <<embeddings, ids, current_max_id, call, result, dry,
                       seed_labels, thr, vp>>

\* identify(target, do_update) called on both objects
Both(target, do_update) ==
    LET r == identify(embeddings, ids, current_max_id, target, do_update)
        c == identify(copy.embeddings, copy.ids, copy.current_max_id,
                      target, do_update)
    IN  /\ copy.made
        /\ do_update => Len(embeddings) < MaxStore
        /\ embeddings' = r.embeddings
        /\ ids' = r.ids
        /\ current_max_id' = r.current_max_id
        /\ call' = [op |-> "identify", target |-> target, do_update |-> do_update,
                    metric |-> "cosine", scored |-> r.scored, matched |-> r.matched]
        /\ result' = r.result
        /\ copy' = [made |-> TRUE, asked |-> TRUE, embeddings |-> c.embeddings,
                    ids |-> c.ids, current_max_id |-> c.current_max_id,
                    result |-> c.result]
        /\ UNCHANGED <<dry, seed_labels, thr, vp>>

NextReload ==
    \/ \E target \in Targets : ~copy.made /\ Identify(target, TRUE)
    \/ Reload
    \/ \E target \in Targets, do_update \in BOOLEAN : Both(target, do_update)

SpecReload == Init /\ [][NextReload]_vars

-----------------------------------------------------------------------------
(* VideoProducer.publish_from_video.  Time is counted in clock ticks, Second
   of them to the second, so that INTERVAL, time.time() and last_time are
   integers; the values are chosen so that every division is exact. *)

Second == 4

\* interval as given to the constructor: -1, 0, 1/4 s, 1/2 s, 1 s, and the
\* frame rates 2 and 4 written where the interval was expected
Intervals == {0 - Second, 0, 1, 2, Second, 2 * Second, 4 * Second}

\* video.get(cv2.CAP_PROP_FPS): 0 when the capture knows no rate
FpsValues == {0, 2, 4}

\* lines 15-18: a value above 1 is taken for a frame rate
VideoProducer_init(interval) ==
    IF interval > Second THEN (Second * Second) \div interval ELSE interval

\* line 48: last_time < 0 or (time.time() - last_time) > self.INTERVAL
ShouldPublish_geq(last_time, now, INTERVAL) ==
    last_time < 0 \/ (now - last_time) >= INTERVAL

ShouldPublish(last_time, now, INTERVAL) ==
    last_time < 0 \/ (now - last_time) > INTERVAL

InitVideo ==
    /\ embeddings = <<>>
    /\ ids = <<>>
    /\ current_max_id = 0
    /\ call = [op |-> "init", target |-> <<>>, do_update |-> FALSE,
               metric |-> "", scored |-> FALSE, matched |-> FALSE]
    /\ result = Returned(0)
    /\ dry = NoDry
    /\ seed_labels = <<>>
    /\ thr = IdleThreads
    /\ copy = NoCopy
    /\ \E interval \in Intervals :
          vp = [NoVideo EXCEPT !.pc = "start",
                               !.INTERVAL = VideoProducer_init(interval)]

\* lines 33-39: open the capture, take the rate of the video for INTERVAL -1
Open(opened, fps) ==
    /\ vp.pc = "start"
    /\ vp' = IF vp.INTERVAL = 0 - Second /\ fps = 0
             THEN [vp EXCEPT !.pc = "raised", !.opened = opened,
                             !.error = "ZeroDivisionError"]
             ELSE [vp EXCEPT !.pc = "loop", !.opened = opened,
                             !.INTERVAL = IF vp.INTERVAL = 0 - Second
                                          THEN Second \div fps
                                          ELSE vp.INTERVAL,
                             !.last_time = 0 - Second]
    /\ UNCHANGED <<embeddings, ids, current_max_id, call, result, dry,
                   seed_labels, thr, copy>>

\* line 40 with the capture not opened: the loop is not entered
NotOpened ==
    /\ vp.pc = "loop"
    /\ ~vp.opened
    /\ vp' = [vp EXCEPT !.pc = "release"]
    /\ UNCHANGED <<embeddings, ids, current_max_id, call, result, dry,
                   seed_labels, thr, copy>>

\* lines 41-52 with a good read: the clock is read at line 48 (d1 ticks after
\* its last reading) and, for a published frame, again at line 50 (d2 later)
Frame(d1, d2) ==
    LET t1 == vp.now + d1
        t2 == t1 + d2
        publish == ShouldPublish(vp.last_time, t1, vp.INTERVAL)
    IN  /\ vp.pc = "loop"
        /\ vp.opened
        /\ vp.nframes < MaxFrames
        /\ ~publish => d2 = 0
        /\ vp' = [vp EXCEPT !.nframes = @ + 1,
                            !.at = t1,
                            !.pub = publish,
                            !.prev = vp.last_time,
                            !.last_time = IF publish THEN t2 ELSE @,
                            !.now = IF publish THEN t2 ELSE t1]
        /\ UNCHANGED <<embeddings, ids, current_max_id, call, result, dry,
                       seed_labels, thr, copy>>

\* lines 41-46 with a bad read: break
BadRead ==
    /\ vp.pc = "loop"
    /\ vp.opened
    /\ vp' = [vp EXCEPT !.pc = "release", !.failed = TRUE]
    /\ UNCHANGED <<embeddings, ids, current_max_id, call, result, dry,
                   seed_labels, thr, copy>>

\* lines 54-55: video.release(); return True
Release ==
    /\ vp.pc = "release"
    /\ vp' = [vp EXCEPT !.pc = "returned", !.released = TRUE, !.ret = TRUE]
    /\ UNCHANGED <<embeddings, ids, current_max_id, call, result, dry,
                   seed_labels, thr, copy>>

NextVideo ==
    \/ \E opened \in BOOLEAN, fps \in FpsValues : Open(opened, fps)
    \/ NotOpened
    \/ \E d1 \in 0..MaxDelay, d2 \in 0..MaxDelay : Frame(d1, d2)
    \/ BadRead
    \/ Release

\* The call runs on: a step that can be taken is taken
SpecVideo == InitVideo /\ [][NextVideo]_vars /\ WF_vars(NextVideo)

-----------------------------------------------------------------------------
(* Threads sharing one PersonReID object.  The source takes no lock, so a   *)
(* thread switch may fall between any two accesses to self.embeddings,      *)
(* self.ids and self.current_max_id; each step below is one such access     *)
(* together with the local computation that follows it.                     *)

Goto(t, pc) == [thr[t] EXCEPT !.pc = pc]

\* line 104 and the return of line 107
AfterDecision(rec) ==
    IF ShouldUpdate(rec.do_update) THEN [rec EXCEPT !.pc = "L124"]
    ELSE [rec EXCEPT !.pc = "done", !.ret = Returned(rec.target_id)]

\* a thread calls identify(target, do_update)
Begin(t, target, do_update) ==
    /\ thr[t].pc = "idle"
    /\ thr' = [thr EXCEPT ![t] = [IdleThread EXCEPT !.pc = "L88",
                                     !.target = target, !.do_update = do_update]]
    /\ UNCHANGED <<embeddings, ids, current_max_id, call, result, dry, seed_labels, copy, vp>>

\* line 88: target_id = self.current_max_id
L88(t) ==
    /\ thr[t].pc = "L88"
    /\ thr' = [thr EXCEPT ![t] = [@ EXCEPT !.pc = "L90",
                                   !.target_id = current_max_id]]
    /\ UNCHANGED <<embeddings, ids, current_max_id, call, result, dry, seed_labels, copy, vp>>

\* line 90: the test of self.embeddings.shape[0]; line 102 when it is 0
L90(t) ==
    /\ thr[t].pc = "L90"
    /\ thr' = [thr EXCEPT ![t] =
                 IF StoreNonEmpty(embeddings) THEN [@ EXCEPT !.pc = "L91"]
                 ELSE AfterDecision([@ EXCEPT !.new_embeddings = <<thr[t].target>>])]
    /\ UNCHANGED <<embeddings, ids, current_max_id, call, result, dry, seed_labels, copy, vp>>

\* lines 91-96: calculate_score reads self.embeddings; torch.max; the threshold
L91(t) ==
    /\ thr[t].pc = "L91"
    /\ LET res == calculate_score(embeddings, thr[t].target, "cosine")
           top == TorchMax(res.scores)
       IN  thr' = [thr EXCEPT ![t] =
                     IF res.kind = "raise"
                     THEN [@ EXCEPT !.pc = "done", !.ret = res]
                     ELSE IF AboveThreshold(top.score)
                     THEN [@ EXCEPT !.pc = "L97", !.top_ppl = top.index]
                     ELSE [@ EXCEPT !.pc = "L99"]]
    /\ UNCHANGED <<embeddings, ids, current_max_id, call, result, dry, seed_labels, copy, vp>>

\* line 97: target_id = self.ids[top_ppl]
L97(t) ==
    /\ thr[t].pc = "L97"
    /\ thr' = [thr EXCEPT ![t] =
                 IF thr[t].top_ppl > Len(ids)
                 THEN [@ EXCEPT !.pc = "done", !.ret = Raised("IndexError")]
                 ELSE [@ EXCEPT !.pc = "L99", !.target_id = ids[thr[t].top_ppl]]]
    /\ UNCHANGED <<embeddings, ids, current_max_id, call, result, dry, seed_labels, copy, vp>>

\* line 99: new_embeddings = torch.cat((self.embeddings, target), dim=0)
L99(t) ==
    /\ thr[t].pc = "L99"
    /\ thr' = [thr EXCEPT ![t] =
                 IF CatFails(embeddings, thr[t].target)
                 THEN [@ EXCEPT !.pc = "done", !.ret = Raised("RuntimeError")]
                 ELSE AfterDecision([@ EXCEPT !.new_embeddings =
                                       NewEmbeddings(embeddings, thr[t].target)])]
    /\ UNCHANGED <<embeddings, ids, current_max_id, call, result, dry, seed_labels, copy, vp>>

\* line 124: self.embeddings = new_embeddings
L124(t) ==
    /\ thr[t].pc = "L124"
    /\ embeddings' = thr[t].new_embeddings
    /\ thr' = [thr EXCEPT ![t] = Goto(t, "L125")]
    /\ UNCHANGED <<ids, current_max_id, call, result, dry, seed_labels, copy, vp>>

\* lines 125-126: the test of len(self.ids), then self.ids.append(target_id)
L125(t) ==
    /\ thr[t].pc = "L125"
    /\ thr' = [thr EXCEPT ![t] =
                 IF AppendId(ids, current_max_id, thr[t].new_embeddings,
                             thr[t].target_id) # ids
                 THEN Goto(t, "L126") ELSE Goto(t, "L127")]
    /\ UNCHANGED <<embeddings, ids, current_max_id, call, result, dry, seed_labels, copy, vp>>

L126(t) ==
    /\ thr[t].pc = "L126"
    /\ ids' = Append(ids, thr[t].target_id)
    /\ thr' = [thr EXCEPT ![t] = Goto(t, "L127")]
    /\ UNCHANGED <<embeddings, current_max_id, call, result, dry, seed_labels, copy, vp>>

\* line 127: the test self.current_max_id == target_id
L127(t) ==
    /\ thr[t].pc = "L127"
    /\ thr' = [thr EXCEPT ![t] =
                 IF BumpCounter(current_max_id, thr[t].target_id) # current_max_id
                 THEN [@ EXCEPT !.pc = "L128", !.tmp = current_max_id]
                 ELSE Goto(t, "L130")]
    /\ UNCHANGED <<embeddings, ids, current_max_id, call, result, dry, seed_labels, copy, vp>>

\* line 128: self.current_max_id += 1, the store of the value read plus one
L128(t) ==
    /\ thr[t].pc = "L128"
    /\ current_max_id' = thr[t].tmp + 1
    /\ thr' = [thr EXCEPT ![t] = Goto(t, "L130")]
    /\ UNCHANGED <<embeddings, ids, call, result, dry, seed_labels, copy, vp>>

\* line 130: the assertion, then the return of line 107
L130(t) ==
    /\ thr[t].pc = "L130"
    /\ thr' = [thr EXCEPT ![t] =
                 [@ EXCEPT !.pc = "done",
                           !.ret = IF Len(ids) = Len(embeddings)
                                   THEN Returned(thr[t].target_id)
                                   ELSE Raised("AssertionError")]]
    /\ UNCHANGED <<embeddings, ids, current_max_id, call, result, dry, seed_labels, copy, vp>>

NextConc ==
    \/ \E t \in Threads, target \in Targets, do_update \in BOOLEAN :
          Begin(t, target, do_update)
    \/ \E t \in Threads : L88(t)
    \/ \E t \in Threads : L90(t)
    \/ \E t \in Threads : L91(t)
    \/ \E t \in Threads : L97(t)
    \/ \E t \in Threads : L99(t)
    \/ \E t \in Threads : L124(t)
    \/ \E t \in Threads : L125(t)
    \/ \E t \in Threads : L126(t)
    \/ \E t \in Threads : L127(t)
    \/ \E t \in Threads : L128(t)
    \/ \E t \in Threads : L130(t)

SpecConc == Init /\ [][NextConc]_vars

-----------------------------------------------------------------------------
(* Properties of sequential use *)

\* The indices at which a sequence of scores is maximal
ArgMaxSet(scores) ==
    {i \in DOMAIN scores : \A j \in DOMAIN scores : ~ScoreGT(scores[j], scores[i])}

MinOf(S) == CHOOSE i \in S : \A j \in S : i <= j

MaxOf(S) == CHOOSE i \in S : \A j \in S : i >= j

\* The step just taken completed an identify call
IdentifyStep == call'.op = "identify"

\* The store before the last call, when that call was a committing identify
PreStore == SubSeq(embeddings, 1, Len(embeddings) - 1)

\* C1: starting from an unseeded matcher, after every identify call the
\* number of stored embeddings equals the number of stored labels, and the
\* assertion closing _update_embeddings has not failed.
C1_LengthInvariant ==
    /\ Len(embeddings) = Len(ids)
    /\ ~(result.kind = "raise" /\ result.error = "AssertionError")

\* A committed reuse has filled the store: three embeddings, three labels
C1_Witness ==
    /\ call.op = "identify" /\ call.do_update /\ call.matched
    /\ Len(embeddings) = 3 /\ Len(ids) = 3
    /\ result.kind = "label"

\* C2: on a non-empty store identify returns the label stored at a best-match
\* index exactly when the top cosine score is strictly greater than the normal
\* threshold; at the threshold or below it returns the counter's value.
C2_ThresholdStrict ==
    [][(IdentifyStep /\ Len(embeddings) > 0) =>
        LET s == cos_scorer(call'.target, embeddings)
            M == ArgMaxSet(s)
            top == s[MinOf(M)]
        IN  /\ result'.kind = "label"
            /\ IF ScoreGT(top, NormalThreshold)
               THEN result'.label \in {ids[i] : i \in M}
               ELSE /\ result'.label = current_max_id
                    /\ result'.label \notin {ids[i] : i \in M}]_vars

\* A committed identify whose top score was exactly the threshold got a new label
C2_Witness ==
    /\ call.op = "identify" /\ call.do_update
    /\ Len(embeddings) >= 2
    /\ LET s == cos_scorer(call.target, PreStore)
           top == s[MinOf(ArgMaxSet(s))]
       IN  /\ ~ScoreGT(top, NormalThreshold)
           /\ ~ScoreGT(NormalThreshold, top)
    /\ result.kind = "label"
    /\ result.label = current_max_id - 1
    /\ \A i \in 1..(Len(ids) - 1) : ids[i] # result.label

\* C3: calculate_score and identify(do_update=False) leave the embeddings, the
\* labels and the counter unchanged, and a target asked again without a commit
\* in between gets the label it got the first time.
C3_ReadOnly ==
    [][(call'.op = "calculate_score" \/ (IdentifyStep /\ ~call'.do_update)) =>
        /\ embeddings' = embeddings
        /\ ids' = ids
        /\ current_max_id' = current_max_id
        /\ (IdentifyStep /\ dry.set /\ dry.target = call'.target) =>
              (result'.kind = "label" /\ result'.label = dry.label)]_vars

\* On a store of two rows a target matching a stored row was asked, without
\* commit, a second time and got the label of the first time
C3_Witness ==
    /\ call.op = "identify" /\ ~call.do_update /\ call.matched
    /\ Len(embeddings) = 2
    /\ dry.set /\ dry.again /\ dry.target = call.target
    /\ result.kind = "label" /\ result.label = dry.label

\* C4: the counter never decreases; a committed identify that decides "new
\* identity" raises it by exactly 1; a committed reuse and every call without
\* commit leave it unchanged.
C4_CounterMonotone ==
    [][/\ current_max_id' >= current_max_id
       /\ (IdentifyStep /\ call'.do_update /\ ~call'.matched)
             => current_max_id' = current_max_id + 1
       /\ (IdentifyStep /\ (~call'.do_update \/ call'.matched))
             => current_max_id' = current_max_id
       /\ call'.op = "calculate_score" => current_max_id' = current_max_id]_vars

\* The scenario new, reuse, new: labels 0, 0, 1 and the counter at 2
C4_Witness ==
    /\ call.op = "identify" /\ call.do_update /\ ~call.matched
    /\ ids = <<0, 0, 1>>
    /\ current_max_id = 2

\* C5: when the maximal score is attained at two or more indices and exceeds
\* the threshold, identify returns the label stored at the lowest of them.
C5_TieLowestIndex ==
    [][(IdentifyStep /\ Len(embeddings) > 0) =>
        LET s == cos_scorer(call'.target, embeddings)
            M == ArgMaxSet(s)
        IN  (Cardinality(M) >= 2 /\ ScoreGT(s[MinOf(M)], NormalThreshold))
               => /\ result'.kind = "label"
                  /\ result'.label = ids[MinOf(M)]]_vars

\* A tie above the threshold between two rows carrying different labels
C5_Witness ==
    /\ call.op = "identify" /\ ~call.do_update
    /\ Len(embeddings) >= 2
    /\ LET s == cos_scorer(call.target, embeddings)
           M == ArgMaxSet(s)
       IN  /\ Cardinality(M) >= 2
           /\ ScoreGT(s[MinOf(M)], NormalThreshold)
           /\ ids[MinOf(M)] # ids[MaxOf(M)]
           /\ result.kind = "label"
           /\ result.label = ids[MinOf(M)]

\* C6: on the fresh unseeded matcher identify returns 0 for every target
\* without scoring and without failing; with do_update the store then holds
\* exactly the target, the labels are <<0>> and the counter is 1.
C6_EmptyStore ==
    [][(IdentifyStep /\ Len(embeddings) = 0) =>
        /\ result' = Returned(0)
        /\ ~call'.scored
        /\ IF call'.do_update
           THEN /\ embeddings' = <<call'.target>>
                /\ ids' = <<0>>
                /\ current_max_id' = 1
           ELSE /\ embeddings' = <<>>
                /\ ids' = <<>>
                /\ current_max_id' = 0]_vars

\* The first committed identify has just returned 0
C6_Witness ==
    /\ call.op = "identify" /\ call.do_update /\ ~call.scored
    /\ embeddings = <<call.target>>
    /\ ids = <<0>>
    /\ current_max_id = 1
    /\ result = Returned(0)

\* C7: a committed identify appends the target to the embeddings and the
\* returned label to the labels and changes nothing else in them; no step
\* removes or rewrites a stored embedding or label.
C7_AppendOnly ==
    [][/\ (IdentifyStep /\ call'.do_update) =>
             /\ result'.kind = "label"
             /\ embeddings' = Append(embeddings, call'.target)
             /\ ids' = Append(ids, result'.label)
       /\ Len(embeddings') >= Len(embeddings)
       /\ Len(ids') >= Len(ids)
       /\ \A i \in 1..Len(embeddings) : embeddings'[i] = embeddings[i]
       /\ \A i \in 1..Len(ids) : ids'[i] = ids[i]]_vars

\* A third entry was appended behind two entries carrying different labels
C7_Witness ==
    /\ call.op = "identify" /\ call.do_update
    /\ Len(embeddings) = 3
    /\ embeddings[3] = call.target
    /\ result.kind = "label" /\ ids[3] = result.label
    /\ ids[1] # ids[2]

-----------------------------------------------------------------------------
(* Properties of concurrent use *)

AllDone == \A t \in Threads : thr[t].pc = "done"

\* The orders in which the threads' calls can be run one after the other
Orders == {o \in [1..NumThreads -> Threads] : \A i, j \in 1..NumThreads :
                                                 o[i] = o[j] => i = j}

\* The object after the threads' calls have run one at a time in order o,
\* from the i-th on, starting from the object st
RECURSIVE SeqRun(_, _, _)
SeqRun(o, i, st) ==
    IF i > NumThreads THEN st
    ELSE LET r == identify(st.embeddings, st.ids, st.current_max_id,
                           thr[o[i]].target, thr[o[i]].do_update)
         IN  SeqRun(o, i + 1, [embeddings |-> r.embeddings, ids |-> r.ids,
                               current_max_id |-> r.current_max_id])

FreshObject == [embeddings |-> <<>>, ids |-> <<>>, current_max_id |-> 0]

\* C8: commits on one matcher are serialized: once all concurrent identify
\* calls have returned, the embeddings, the labels and the counter are those
\* that running the same calls one after the other, in some order, produces.
C8_CommitsSerialized ==
    AllDone =>
        \E o \in Orders :
            SeqRun(o, 1, FreshObject) =
                [embeddings |-> embeddings, ids |-> ids,
                 current_max_id |-> current_max_id]

\* A call without commit that has scored against a store longer than the labels
TornRead(t) ==
    /\ ~thr[t].do_update
    /\ thr[t].pc = "L97"
    /\ thr[t].top_ppl > Len(ids)

\* C9: a call without commit never runs between the store write and the label
\* append of a commit in progress: it never holds a best-match index beyond the
\* end of the labels, and never fails with an IndexError.
C9_NoTornRead ==
    \A t \in Threads :
        /\ ~TornRead(t)
        /\ (~thr[t].do_update /\ thr[t].pc = "done") => thr[t].ret.kind # "raise"

-----------------------------------------------------------------------------
(* Properties of construction *)

SeqMax(q) == MaxOf({q[i] : i \in DOMAIN q})

\* C10: after initialization the counter is max(seed_labels) + 1 when the
\* matcher is seeded with a non-empty set of (embedding, label) pairs, and 0
\* when it starts empty.
C10_SeededCounter ==
    call.op = "init" =>
        current_max_id = IF Len(embeddings) > 0 THEN SeqMax(seed_labels) + 1 ELSE 0


\* C11: a matcher seeded from a tensor or a file has as many labels as
\* embeddings right after initialization and after every identify call, and
\* identify neither indexes past the labels nor trips the length assertion.
C11_SeededLengthInvariant ==
    /\ Len(embeddings) = Len(ids)
    /\ ~(result.kind = "raise" /\ result.error \in {"IndexError", "AssertionError"})

-----------------------------------------------------------------------------
(* Further properties of sequential use *)

Labels == {ids[i] : i \in DOMAIN ids}

\* The index at which a label first appears
FirstAt(l) == MinOf({i \in DOMAIN ids : ids[i] = l})

\* C14: the store leaves Empty only through an identify with do_update (an
\* identify without it and a calculate_score leave it Empty), and a Populated
\* store never becomes Empty again.
C14_EmptyPopulated ==
    [][/\ (Len(embeddings) = 0 /\ Len(embeddings') > 0)
             => (IdentifyStep /\ call'.do_update)
       /\ (Len(embeddings) = 0 /\ (call'.op = "calculate_score"
                                    \/ (IdentifyStep /\ ~call'.do_update)))
             => Len(embeddings') = 0
       /\ Len(embeddings) > 0 => Len(embeddings') > 0]_vars

\* After the first commit an identify without commit and a score have run, and
\* the store still holds its one row
C14_Witness ==
    /\ Len(embeddings) = 1
    /\ call.op = "calculate_score"
    /\ dry.set

\* C16: from an unseeded matcher every stored label is below the counter, the
\* stored labels are exactly 0 .. counter-1 and first appear in increasing
\* order; identify returns the counter's value exactly when it decides "new
\* identity", and a reuse leaves the counter alone.
C16_DenseLabels ==
    [][/\ Labels' = 0..(current_max_id' - 1)
       /\ \A l, m \in Labels' : l < m => FirstAt(l)' < FirstAt(m)'
       /\ (IdentifyStep /\ result'.kind = "label") =>
             /\ (result'.label = current_max_id) <=> ~call'.matched
             /\ call'.matched => current_max_id' = current_max_id]_vars

\* Labels 0 and 1 are stored and a committed reuse of label 0 came after both
C16_Witness ==
    /\ call.op = "identify" /\ call.do_update /\ call.matched
    /\ ids = <<0, 1, 0>>
    /\ current_max_id = 2
    /\ result = Returned(0)


\* C13: identify, with or without commit, on a non-empty store with a target
\* whose dimensionality differs from the store's raises to the caller, returns
\* no label and leaves embeddings, labels and counter unchanged; no row of
\* another dimensionality ever enters the store.
C13_DimensionMismatch ==
    [][/\ (IdentifyStep /\ Len(embeddings) > 0
             /\ Len(call'.target) # Len(embeddings[1]))
             => /\ result'.kind = "raise"
                /\ embeddings' = embeddings
                /\ ids' = ids
                /\ current_max_id' = current_max_id
       /\ \A i \in DOMAIN embeddings' :
             Len(embeddings'[i]) = Len(embeddings'[1])]_vars

\* A commit of a one-column target, which broadcasts in the scoring, was refused
\* on a store of two four-column rows
C13_Witness ==
    /\ call.op = "identify" /\ call.do_update
    /\ Len(call.target) = 1
    /\ Len(embeddings) = 2 /\ Len(embeddings[1]) = 4
    /\ Len(ids) = 2
    /\ result = Raised("RuntimeError")

\* The score the metric gives the target against a stored row
PairScore(metric, target, row) ==
    IF metric = "cosine" THEN CosRow(target, row)
    ELSE <<"sqrt", SqDist(target, row)>>

\* C15: for every store, the empty one included, and for both metrics
\* calculate_score returns one score per stored embedding, the i-th computed
\* between the target and the i-th embedding; on the empty store it returns
\* an empty sequence and does not fail.
C15_ScorePerEmbedding ==
    call.op = "calculate_score" =>
        /\ result.kind = "scores"
        /\ Len(result.scores) = Len(embeddings)
        /\ \A i \in DOMAIN embeddings :
              result.scores[i] = PairScore(call.metric, call.target, embeddings[i])


\* C12: a matcher constructed from the saved state of another one behaves as
\* the original: after any further identify calls made on both, both have
\* returned the same and hold the same embeddings, labels and counter.
C12_RoundTrip ==
    copy.made =>
        /\ copy.embeddings = embeddings
        /\ copy.ids = ids
        /\ copy.current_max_id = current_max_id
        /\ copy.asked => copy.result = result

\* The step just taken was a call of the constructor
ConstructStep == call.op = "new" /\ call'.op = "init"

Throttled ==
    /\ vp.nframes = 1 => vp.pub
    /\ vp.nframes > 1 => (vp.pub <=> (vp.at - vp.prev) > vp.INTERVAL)
    /\ vp.pc = "returned" => vp.released /\ vp.ret

\* C18: publish_from_video publishes the first frame it reads, publishes a
\* later frame only if more than INTERVAL has passed since the previous
\* publication and drops it otherwise, reads nothing more once a read has
\* failed, and after a failed read releases the capture and returns.
C18_Throttle ==
    /\ []Throttled
    /\ [][vp.failed => vp'.nframes = vp.nframes /\ vp'.failed]_vars
    /\ (vp.failed ~> (vp.pc = "returned" /\ vp.released /\ vp.ret))

\* A call that published its first frame, dropped the second, published the
\* third, met a bad read and returned
C18_Witness ==
    /\ vp.pc = "returned"
    /\ vp.failed
    /\ vp.nframes = 3
    /\ vp.pub
    /\ vp.prev >= 0
    /\ vp.at - vp.prev > vp.INTERVAL + 1
    /\ vp.INTERVAL > 0

=============================================================================
